---- MODULE Spec2Model ----
(***************************************************************************)
(* State-machine model of src/fastapi-backend/main.py: the in-memory task  *)
(* and user store, the JWT bearer-token helpers and the request handlers.  *)
(*                                                                         *)
(* Granularity.  Every route handler is an `async def` whose body holds no *)
(* await, so a handler body runs to completion on the event loop: it is    *)
(* one atomic action.  A request is in flight before its handler runs (the *)
(* framework awaits the body / runs the sync dependency verify_token in a  *)
(* worker thread), so a bearer-gated request takes three steps:            *)
(* Receive, Authenticate (security + verify_token), handler; an open route *)
(* takes two: Receive, handler.                                            *)
(*                                                                         *)
(* Time is counted in whole minutes (datetime.utcnow() read at `now`); the  *)
(* JWT library stores exp in whole seconds, which is exact on them, and    *)
(* treats a token as expired from the instant the clock reaches exp.       *)
(***************************************************************************)
EXTENDS Integers, Sequences, FiniteSets, TLC

VARIABLES
    tasks_db,         \* main.py:80  list of Task
    users_db,         \* main.py:81  list of User
    task_id_counter,  \* main.py:82
    user_id_counter,  \* main.py:83
    now,              \* the clock datetime.utcnow() reads, in minutes
    pc,               \* per client: "idle", "received" or "authed"
    req,              \* per client: the request in flight / last answered
    principal,        \* per client: what verify_token returned (Depends)
    resp,             \* per client: the response to req, status 0 = none yet
    token,            \* per client: the access token its last login returned
    assigned_ids      \* history: the ids handed out so far, per collection

vars == <<tasks_db, users_db, task_id_counter, user_id_counter, now,
          pc, req, principal, resp, token, assigned_ids>>

store == <<tasks_db, users_db, task_id_counter, user_id_counter>>

--------------------------------------------------------------------------
(* Bounds of the model and constants of the program                       *)

\* ids handed out per collection in one behaviour
MaxIds == 2
\* latest minute at which a token is issued in the expiry specification
IssueWindow == 1

ACCESS_TOKEN_EXPIRE_MINUTES == 30
SECRET_KEY == "your-secret-key-change-in-production"
OtherKey == "some-other-key"

HTTP_200 == 200
HTTP_400 == 400
HTTP_401 == 401
HTTP_403 == 403
HTTP_404 == 404

\* Python's None (Optional[str] fields, dict.get on a missing key)
None == "None"

Clients == {"c1", "c2"}

Usernames == {"alice", "bob", ""}
Emails == {"a@x.io", "b@x.io"}
Passwords == {"pw", "anything"}

TaskInputs ==
    { [title |-> "A", description |-> None, priority |-> "medium"],
      [title |-> "B", description |-> "d",  priority |-> "high"] }

GatedOps == {"create_task", "get_tasks", "get_task", "update_task",
             "delete_task", "complete_task", "get_current_user"}
OpenOps == {"create_user", "get_users", "login", "get_analytics"}

--------------------------------------------------------------------------
(* Bearer credentials and the JWT library                                 *)

\* no Authorization header / a header that is no JWT at all
NoCred == [kind |-> "absent"]
Garbage == [kind |-> "garbage"]

\* jwt.encode: the claims, signed with key
jwt_encode(payload, key) == [kind |-> "jwt", payload |-> payload, key |-> key]

\* mutant of jwt_decode: options={"verify_signature": False}, which skips
\* the signature and the expiry check
jwt_decode_unverified(credentials, key) ==
    IF credentials.kind # "jwt" THEN [error |-> "DecodeError"]
    ELSE [error |-> None, payload |-> credentials.payload]

\* jwt.decode: DecodeError, InvalidSignatureError, ExpiredSignatureError
\* (exp <= now; a token without exp is not required to have one), else the
\* claims
jwt_decode(credentials, key) ==
    IF credentials.kind # "jwt" THEN [error |-> "DecodeError"]
    ELSE IF credentials.key # key THEN [error |-> "InvalidSignatureError"]
    ELSE IF "exp" \in DOMAIN credentials.payload
            /\ credentials.payload["exp"] <= now
         THEN [error |-> "ExpiredSignatureError"]
    ELSE [error |-> None, payload |-> credentials.payload]

\* dict.get(key): None when the key is missing
dict_get(d, k) == IF k \in DOMAIN d THEN d[k] ELSE None

\* mutant of create_access_token: timedelta(seconds=..) for minutes
create_access_token_seconds(data) ==
    LET to_encode == data
        expire == now + ACCESS_TOKEN_EXPIRE_MINUTES \div 60
    IN  jwt_encode(("exp" :> expire) @@ to_encode, SECRET_KEY)

create_access_token(data) ==
    LET to_encode == data
        expire == now + ACCESS_TOKEN_EXPIRE_MINUTES
    IN  jwt_encode(("exp" :> expire) @@ to_encode, SECRET_KEY)

\* HTTPBearer(): the statuses it may answer a request without bearer
\* credentials with: 403 in the FastAPI release the source names (0.104.1),
\* 401 in later releases
security_statuses == {HTTP_401, HTTP_403}

\* mutant of verify_token: the token counts only while its user is stored
verify_token_known_user(credentials) ==
    LET decoded == jwt_decode(credentials, SECRET_KEY)
    IN  IF decoded.error # None
        THEN [status |-> HTTP_401, detail |-> "Invalid token"]
        ELSE LET username == dict_get(decoded.payload, "sub")
             IN  IF \/ username = None
                    \/ ~\E i \in 1..Len(users_db) :
                           users_db[i].username = username
                 THEN [status |-> HTTP_401, detail |-> "Invalid token"]
                 ELSE [status |-> HTTP_200, username |-> username]

\* mutant of verify_token: the subject is read from another claim
verify_token_other_claim(credentials) ==
    LET decoded == jwt_decode(credentials, SECRET_KEY)
    IN  IF decoded.error # None
        THEN [status |-> HTTP_401, detail |-> "Invalid token"]
        ELSE LET username == dict_get(decoded.payload, "username")
             IN  IF username = None
                 THEN [status |-> HTTP_401, detail |-> "Invalid token"]
                 ELSE [status |-> HTTP_200, username |-> username]

\* mutant of verify_token: an except clause of its own tells the caller that
\* the token has expired
verify_token_tells_expired(credentials) ==
    LET decoded == jwt_decode(credentials, SECRET_KEY)
    IN  IF decoded.error = "ExpiredSignatureError"
        THEN [status |-> HTTP_401, detail |-> "Token expired"]
        ELSE IF decoded.error # None
        THEN [status |-> HTTP_401, detail |-> "Invalid token"]
        ELSE LET username == dict_get(decoded.payload, "sub")
             IN  IF username = None
                 THEN [status |-> HTTP_401, detail |-> "Invalid token"]
                 ELSE [status |-> HTTP_200, username |-> username]

verify_token(credentials) ==
    LET decoded == jwt_decode(credentials, SECRET_KEY)
    IN  IF decoded.error # None
        THEN [status |-> HTTP_401, detail |-> "Invalid token"]
        ELSE LET username == dict_get(decoded.payload, "sub")
             IN  IF username = None
                 THEN [status |-> HTTP_401, detail |-> "Invalid token"]
                 ELSE [status |-> HTTP_200, username |-> username]

--------------------------------------------------------------------------
(* Requests, responses                                                    *)

NoReq == [op |-> "none"]
NoResp == [status |-> 0, body |-> None]

\* a request: the route, the bearer credentials, the path and body parameters
BearerReq(op, cred) == [op |-> op, cred |-> cred]
TaskIdReq(op, cred, task_id) == [op |-> op, cred |-> cred, task_id |-> task_id]
CreateTaskReq(cred, task) == [op |-> "create_task", cred |-> cred, task |-> task]
UpdateTaskReq(cred, task_id, task) ==
    [op |-> "update_task", cred |-> cred, task_id |-> task_id, task |-> task]
UserReq(username, email, password) ==
    [op |-> "create_user", username |-> username, email |-> email,
     password |-> password]
LoginReq(username, password) ==
    [op |-> "login", username |-> username, password |-> password]
OpenReq(op) == [op |-> op]

TypeOK ==
    /\ task_id_counter \in 1..(MaxIds + 3)
    /\ user_id_counter \in 1..(MaxIds + 3)
    /\ \A i \in 1..Len(tasks_db) :
          /\ tasks_db[i].id \in 1..(MaxIds + 2)
          /\ tasks_db[i].completed \in BOOLEAN
    /\ \A i \in 1..Len(users_db) : users_db[i].id \in 1..(MaxIds + 2)
    /\ pc \in [Clients -> {"idle", "received", "authed"}]
    /\ \A c \in Clients : req[c].op \in GatedOps \cup OpenOps \cup {"none"}

Init ==
    /\ tasks_db = <<>>
    /\ users_db = <<>>
    /\ task_id_counter = 1
    /\ user_id_counter = 1
    /\ now = 0
    /\ pc = [c \in Clients |-> "idle"]
    /\ req = [c \in Clients |-> NoReq]
    /\ principal = [c \in Clients |-> None]
    /\ resp = [c \in Clients |-> NoResp]
    /\ token = [c \in Clients |-> NoCred]
    /\ assigned_ids = [tasks |-> {}, users |-> {}]

\* the request r of client c reaches the server
Receive(c, r) ==
    /\ pc[c] = "idle"
    /\ pc' = [pc EXCEPT ![c] = "received"]
    /\ req' = [req EXCEPT ![c] = r]
    /\ resp' = [resp EXCEPT ![c] = NoResp]
    /\ principal' = [principal EXCEPT ![c] = None]
    /\ UNCHANGED <<store, now, token, assigned_ids>>

\* the response leaves; the client is idle again
Reply(c, status, body) ==
    /\ resp' = [resp EXCEPT ![c] = [status |-> status, body |-> body]]
    /\ pc' = [pc EXCEPT ![c] = "idle"]

\* Depends(security), then Depends(verify_token), of a bearer-gated route
Authenticate(c) ==
    /\ pc[c] = "received"
    /\ req[c].op \in GatedOps
    /\ IF req[c].cred.kind = "absent"
       THEN /\ \E s \in security_statuses : Reply(c, s, "Not authenticated")
            /\ UNCHANGED principal
       ELSE LET v == verify_token(req[c].cred)
            IN  IF v.status # HTTP_200
                THEN /\ Reply(c, v.status, v.detail)
                     /\ UNCHANGED principal
                ELSE /\ pc' = [pc EXCEPT ![c] = "authed"]
                     /\ principal' = [principal EXCEPT ![c] = v.username]
                     /\ UNCHANGED resp
    /\ UNCHANGED <<store, now, req, token, assigned_ids>>

--------------------------------------------------------------------------
(* Task Management API                                                    *)

\* next((t for t in tasks_db if t.id == task_id), None), as the index of
\* the first match, 0 for None
find_task(task_id) ==
    IF \E i \in 1..Len(tasks_db) : tasks_db[i].id = task_id
    THEN CHOOSE i \in 1..Len(tasks_db) :
            /\ tasks_db[i].id = task_id
            /\ \A j \in 1..(i - 1) : tasks_db[j].id # task_id
    ELSE 0

\* mutant of new_task: id=len(tasks_db) + 1
new_task_by_length(task) ==
    [id |-> Len(tasks_db) + 1, title |-> task.title,
     description |-> task.description, priority |-> task.priority,
     completed |-> FALSE, created_at |-> now]

\* Task(id=task_id_counter, title=.., description=.., priority=..,
\*      created_at=datetime.utcnow()); completed takes its default False
new_task(task) ==
    [id |-> task_id_counter, title |-> task.title,
     description |-> task.description, priority |-> task.priority,
     completed |-> FALSE, created_at |-> now]

create_task(c) ==
    /\ pc[c] = "authed"
    /\ req[c].op = "create_task"
    /\ tasks_db' = Append(tasks_db, new_task(req[c].task))
    /\ task_id_counter' = task_id_counter + 1
    /\ assigned_ids' = [assigned_ids EXCEPT
                           !.tasks = @ \cup {new_task(req[c].task).id}]
    /\ Reply(c, HTTP_200, new_task(req[c].task))
    /\ UNCHANGED <<users_db, user_id_counter, now, req, principal, token>>

\* mutant of get_tasks: return tasks_db[::-1], the newest task first
get_tasks_newest_first(c) ==
    /\ pc[c] = "authed"
    /\ req[c].op = "get_tasks"
    /\ Reply(c, HTTP_200,
             [i \in 1..Len(tasks_db) |-> tasks_db[Len(tasks_db) + 1 - i]])
    /\ UNCHANGED <<store, now, req, principal, token, assigned_ids>>

get_tasks(c) ==
    /\ pc[c] = "authed"
    /\ req[c].op = "get_tasks"
    /\ Reply(c, HTTP_200, tasks_db)
    /\ UNCHANGED <<store, now, req, principal, token, assigned_ids>>

get_task(c) ==
    /\ pc[c] = "authed"
    /\ req[c].op = "get_task"
    /\ LET i == find_task(req[c].task_id)
       IN  IF i = 0
           THEN Reply(c, HTTP_404, "Task not found")
           ELSE Reply(c, HTTP_200, tasks_db[i])
    /\ UNCHANGED <<store, now, req, principal, token, assigned_ids>>

\* mutant of updated_task: the stored task is rebuilt from the TaskCreate
\* body, so completed falls back to its default
updated_task_rebuilt(task, task_update) ==
    [id |-> task.id, title |-> task_update.title,
     description |-> task_update.description,
     priority |-> task_update.priority, completed |-> FALSE,
     created_at |-> task.created_at]

\* mutant of updated_task: an edited task is open again,
\* task.completed = False after the three assignments
updated_task_reopened(task, task_update) ==
    [task EXCEPT !.title = task_update.title,
                 !.description = task_update.description,
                 !.priority = task_update.priority,
                 !.completed = FALSE]

\* task.title = ..; task.description = ..; task.priority = ..
updated_task(task, task_update) ==
    [task EXCEPT !.title = task_update.title,
                 !.description = task_update.description,
                 !.priority = task_update.priority]

\* mutant of update_task: the handler yields to the event loop after
\* task.title = .., the other two fields are assigned when it resumes
update_task_in_two_steps(c) ==
    /\ req[c].op = "update_task"
    /\ LET i == find_task(req[c].task_id)
       IN  \/ /\ pc[c] = "authed"
              /\ i = 0
              /\ Reply(c, HTTP_404, "Task not found")
              /\ UNCHANGED tasks_db
           \/ /\ pc[c] = "authed"
              /\ i # 0
              /\ tasks_db' = [tasks_db EXCEPT ![i].title = req[c].task.title]
              /\ pc' = [pc EXCEPT ![c] = "updating"]
              /\ UNCHANGED resp
           \/ /\ pc[c] = "updating"
              /\ i = 0
              /\ Reply(c, HTTP_404, "Task not found")
              /\ UNCHANGED tasks_db
           \/ /\ pc[c] = "updating"
              /\ i # 0
              /\ tasks_db' = [tasks_db EXCEPT
                                 ![i] = updated_task(@, req[c].task)]
              /\ Reply(c, HTTP_200, updated_task(tasks_db[i], req[c].task))
    /\ UNCHANGED <<users_db, task_id_counter, user_id_counter, now, req,
                   principal, token, assigned_ids>>

update_task(c) ==
    /\ pc[c] = "authed"
    /\ req[c].op = "update_task"
    /\ LET i == find_task(req[c].task_id)
       IN  IF i = 0
           THEN /\ Reply(c, HTTP_404, "Task not found")
                /\ UNCHANGED tasks_db
           ELSE /\ tasks_db' = [tasks_db EXCEPT
                                   ![i] = updated_task(@, req[c].task)]
                /\ Reply(c, HTTP_200, updated_task(tasks_db[i], req[c].task))
    /\ UNCHANGED <<users_db, task_id_counter, user_id_counter, now, req,
                   principal, token, assigned_ids>>

\* mutant of tasks_without: tasks_db.pop(task_id - 1), delete by position
tasks_without_by_position(db, task_id) ==
    IF task_id \in 1..Len(db)
    THEN SubSeq(db, 1, task_id - 1) \o SubSeq(db, task_id + 1, Len(db))
    ELSE db

\* [t for t in tasks_db if t.id != task_id]
tasks_without(db, task_id) == SelectSeq(db, LAMBDA t : t.id # task_id)

\* mutant of delete_task: the route lacks Depends(verify_token)
delete_task_ungated(c) ==
    /\ pc[c] = "received"
    /\ req[c].op = "delete_task"
    /\ tasks_db' = tasks_without(tasks_db, req[c].task_id)
    /\ Reply(c, HTTP_200, "Task deleted successfully")
    /\ UNCHANGED <<users_db, task_id_counter, user_id_counter, now, req,
                   principal, token, assigned_ids>>

\* mutant of delete_task: deleting the newest task hands its id back,
\* task_id_counter -= 1
delete_task_reclaims_id(c) ==
    /\ pc[c] = "authed"
    /\ req[c].op = "delete_task"
    /\ tasks_db' = tasks_without(tasks_db, req[c].task_id)
    /\ task_id_counter' =
           IF find_task(req[c].task_id) # 0 /\ req[c].task_id = task_id_counter - 1
           THEN task_id_counter - 1
           ELSE task_id_counter
    /\ Reply(c, HTTP_200, "Task deleted successfully")
    /\ UNCHANGED <<users_db, user_id_counter, now, req,
                   principal, token, assigned_ids>>

delete_task(c) ==
    /\ pc[c] = "authed"
    /\ req[c].op = "delete_task"
    /\ tasks_db' = tasks_without(tasks_db, req[c].task_id)
    /\ Reply(c, HTTP_200, "Task deleted successfully")
    /\ UNCHANGED <<users_db, task_id_counter, user_id_counter, now, req,
                   principal, token, assigned_ids>>

\* mutant of completed_task: task.completed = not task.completed
completed_task_toggled(task) == [task EXCEPT !.completed = ~@]

\* task.completed = True
completed_task(task) == [task EXCEPT !.completed = TRUE]

complete_task(c) ==
    /\ pc[c] = "authed"
    /\ req[c].op = "complete_task"
    /\ LET i == find_task(req[c].task_id)
       IN  IF i = 0
           THEN /\ Reply(c, HTTP_404, "Task not found")
                /\ UNCHANGED tasks_db
           ELSE /\ tasks_db' = [tasks_db EXCEPT ![i] = completed_task(@)]
                /\ Reply(c, HTTP_200, completed_task(tasks_db[i]))
    /\ UNCHANGED <<users_db, task_id_counter, user_id_counter, now, req,
                   principal, token, assigned_ids>>

--------------------------------------------------------------------------
(* User Management API, Authentication API, analytics                     *)

\* mutant of find_user: the comparison with username is dropped, the first
\* user with a non-empty username is taken
find_user_any(username) ==
    IF \E i \in 1..Len(users_db) : users_db[i].username # ""
    THEN CHOOSE i \in 1..Len(users_db) :
            /\ users_db[i].username # ""
            /\ \A j \in 1..(i - 1) : users_db[j].username = ""
    ELSE 0

\* next((u for u in users_db if u.username == username), None), as the
\* index of the first match, 0 for None
find_user(username) ==
    IF \E i \in 1..Len(users_db) : users_db[i].username = username
    THEN CHOOSE i \in 1..Len(users_db) :
            /\ users_db[i].username = username
            /\ \A j \in 1..(i - 1) : users_db[j].username # username
    ELSE 0

\* mutant of username_exists: the check looks at the users other requests
\* had made before this request's own check, missing the newest
username_exists_stale(username) ==
    \E i \in 1..(Len(users_db) - 1) : users_db[i].username = username

\* any(u.username == user.username for u in users_db)
username_exists(username) ==
    \E i \in 1..Len(users_db) : users_db[i].username = username

\* User(id=user_id_counter, username=.., email=.., created_at=utcnow());
\* the password of the request is dropped
new_user(user) ==
    [id |-> user_id_counter, username |-> user.username,
     email |-> user.email, created_at |-> now]

\* mutant of create_user: the id is taken, and the counter advanced, before
\* the username is checked
create_user_counts_first(c) ==
    /\ pc[c] = "received"
    /\ req[c].op = "create_user"
    /\ user_id_counter' = user_id_counter + 1
    /\ IF username_exists(req[c].username)
       THEN /\ Reply(c, HTTP_400, "Username already exists")
            /\ UNCHANGED <<users_db, assigned_ids>>
       ELSE /\ users_db' = Append(users_db, new_user(req[c]))
            /\ assigned_ids' = [assigned_ids EXCEPT
                                   !.users = @ \cup {new_user(req[c]).id}]
            /\ Reply(c, HTTP_200, new_user(req[c]))
    /\ UNCHANGED <<tasks_db, task_id_counter, now, req, principal, token>>

create_user(c) ==
    /\ pc[c] = "received"
    /\ req[c].op = "create_user"
    /\ IF username_exists(req[c].username)
       THEN /\ Reply(c, HTTP_400, "Username already exists")
            /\ UNCHANGED <<users_db, user_id_counter, assigned_ids>>
       ELSE /\ users_db' = Append(users_db, new_user(req[c]))
            /\ user_id_counter' = user_id_counter + 1
            /\ assigned_ids' = [assigned_ids EXCEPT
                                   !.users = @ \cup {new_user(req[c]).id}]
            /\ Reply(c, HTTP_200, new_user(req[c]))
    /\ UNCHANGED <<tasks_db, task_id_counter, now, req, principal, token>>

get_users(c) ==
    /\ pc[c] = "received"
    /\ req[c].op = "get_users"
    /\ Reply(c, HTTP_200, users_db)
    /\ UNCHANGED <<store, now, req, principal, token, assigned_ids>>

\* mutant of login: the lookup of the user is dropped, a token is issued
\* for whatever username is sent
login_unchecked(c) ==
    /\ pc[c] = "received"
    /\ req[c].op = "login"
    /\ LET access_token == create_access_token("sub" :> req[c].username)
       IN  /\ Reply(c, HTTP_200, access_token)
           /\ token' = [token EXCEPT ![c] = access_token]
    /\ UNCHANGED <<store, now, req, principal, assigned_ids>>

\* the password parameter is never read
login(c) ==
    /\ pc[c] = "received"
    /\ req[c].op = "login"
    /\ IF find_user(req[c].username) = 0
       THEN /\ Reply(c, HTTP_401, "Invalid credentials")
            /\ UNCHANGED token
       ELSE LET access_token ==
                    create_access_token("sub" :> req[c].username)
            IN  /\ Reply(c, HTTP_200, access_token)
                /\ token' = [token EXCEPT ![c] = access_token]
    /\ UNCHANGED <<store, now, req, principal, assigned_ids>>

get_current_user(c) ==
    /\ pc[c] = "authed"
    /\ req[c].op = "get_current_user"
    /\ LET i == find_user(principal[c])
       IN  IF i = 0
           THEN Reply(c, HTTP_404, "User not found")
           ELSE Reply(c, HTTP_200, users_db[i])
    /\ UNCHANGED <<store, now, req, principal, token, assigned_ids>>

get_analytics(c) ==
    /\ pc[c] = "received"
    /\ req[c].op = "get_analytics"
    /\ Reply(c, HTTP_200,
             [total_tasks |-> Len(tasks_db),
              completed_tasks |->
                  Len(SelectSeq(tasks_db, LAMBDA t : t.completed)),
              total_users |-> Len(users_db)])
    /\ UNCHANGED <<store, now, req, principal, token, assigned_ids>>

\* the clock moves on to a later instant of T
Tick(T) ==
    /\ \E t \in T : t > now /\ now' = t
    /\ UNCHANGED <<store, pc, req, principal, resp, token, assigned_ids>>

--------------------------------------------------------------------------
(* Spec: one client works on the task store                               *)

\* what create_access_token({"sub": "alice"}) returns at minute 0
BearerAlice ==
    jwt_encode(("exp" :> ACCESS_TOKEN_EXPIRE_MINUTES) @@ ("sub" :> "alice"),
               SECRET_KEY)
\* the same claims signed with another key
BadSignature ==
    jwt_encode(("exp" :> ACCESS_TOKEN_EXPIRE_MINUTES) @@ ("sub" :> "alice"),
               OtherKey)

StoreClients == {"c1"}
StoreCreds == {NoCred, BadSignature, BearerAlice}
StoreInstants == {0, 1}
\* the ids a request may name: those handed out and one that never is
TaskIds == 1..(MaxIds + 1)

TaskRequests(creds, inputs) ==
    {CreateTaskReq(cr, t) : cr \in creds, t \in inputs}
    \cup {BearerReq("get_tasks", cr) : cr \in creds}
    \cup {TaskIdReq(op, cr, id) :
             op \in {"get_task", "delete_task", "complete_task"},
             cr \in creds, id \in TaskIds}
    \cup {UpdateTaskReq(cr, id, t) : cr \in creds, id \in TaskIds, t \in inputs}

\* requests in flight that will take an id of the collection
Pending(op) == Cardinality({c \in Clients : pc[c] # "idle" /\ req[c].op = op})

\* no more than MaxIds ids are asked for per collection
WithinBounds(r) ==
    /\ r.op = "create_task" =>
           task_id_counter + Pending("create_task") <= MaxIds
    /\ r.op = "create_user" =>
           user_id_counter + Pending("create_user") <= MaxIds

StoreRequests ==
    TaskRequests(StoreCreds, TaskInputs)
    \cup {BearerReq("get_current_user", cr) : cr \in StoreCreds}
    \cup {OpenReq("get_analytics")}

Next ==
    \/ \E c \in StoreClients :
          \/ \E r \in StoreRequests : WithinBounds(r) /\ Receive(c, r)
          \/ Authenticate(c)
          \/ create_task(c)
          \/ get_tasks(c)
          \/ get_task(c)
          \/ update_task(c)
          \/ delete_task(c)
          \/ complete_task(c)
          \/ get_current_user(c)
          \/ get_analytics(c)
    \/ Tick(StoreInstants)

Spec == Init /\ [][Next]_vars

--------------------------------------------------------------------------
(* SpecToken: one client signs up, logs in and presents tokens while the  *)
(* clock runs past their expiry                                           *)

\* the minutes the clock is read at: the issue window, and 29, 30 and 31
\* minutes after each of its minutes
Instants ==
    (0..IssueWindow)
    \cup {t + d : t \in 0..IssueWindow,
                  d \in {ACCESS_TOKEN_EXPIRE_MINUTES - 1,
                         ACCESS_TOKEN_EXPIRE_MINUTES,
                         ACCESS_TOKEN_EXPIRE_MINUTES + 1}}

\* claims without exp: no sub at all, a null sub, an empty sub, the name of
\* a user that is never created
NoClaims == [k \in {} |-> None]
SubClaims == {NoClaims} \cup {"sub" :> sub : sub \in {None, "", "bob"}}

\* tokens a caller may present that login did not issue: signed with the
\* process key (known to whoever holds SECRET_KEY) or with another key
ForgedTokens ==
    {jwt_encode(p, SECRET_KEY) : p \in SubClaims}
    \cup {jwt_encode(("exp" :> ACCESS_TOKEN_EXPIRE_MINUTES) @@ p, SECRET_KEY) :
             p \in SubClaims}
    \cup {BadSignature}

TokenClients == {"c1"}
TokenCreds(c) == {NoCred, Garbage, token[c]} \cup ForgedTokens

TokenRequests(c) ==
    {UserReq(u, "a@x.io", "pw") : u \in {"alice", ""}}
    \cup {LoginReq(u, p) : u \in Usernames, p \in Passwords}
    \cup {BearerReq(op, cr) :
             op \in {"get_tasks", "get_current_user"}, cr \in TokenCreds(c)}

NextToken ==
    \/ \E c \in TokenClients :
          \/ \E r \in TokenRequests(c) : WithinBounds(r) /\ Receive(c, r)
          \/ Authenticate(c)
          \/ get_tasks(c)
          \/ create_user(c)
          \/ login(c)
          \/ get_current_user(c)
    \/ Tick(Instants)

SpecToken == Init /\ [][NextToken]_vars

--------------------------------------------------------------------------
(* SpecStateless: one client changes both collections while a token for a  *)
(* subject without a user record, and the tokens login issues, are used    *)

\* a token for bob, as login would issue it at minute 0
BobToken ==
    jwt_encode(("exp" :> ACCESS_TOKEN_EXPIRE_MINUTES) @@ ("sub" :> "bob"),
               SECRET_KEY)

StatelessClients == {"c1"}
StatelessInstants ==
    {0, ACCESS_TOKEN_EXPIRE_MINUTES - 1, ACCESS_TOKEN_EXPIRE_MINUTES}
StatelessCreds(c) == {token[c], BobToken}
StatelessInput == [title |-> "A", description |-> None, priority |-> "medium"]

StatelessRequests(c) ==
    {UserReq(u, "a@x.io", "pw") : u \in {"alice", "bob"}}
    \cup {LoginReq(u, "pw") : u \in {"alice", "bob"}}
    \cup {CreateTaskReq(cr, StatelessInput) : cr \in StatelessCreds(c)}
    \cup {BearerReq("get_tasks", cr) : cr \in StatelessCreds(c)}
    \cup {TaskIdReq("delete_task", cr, id) :
             cr \in StatelessCreds(c), id \in TaskIds}

NextStateless ==
    \/ \E c \in StatelessClients :
          \/ \E r \in StatelessRequests(c) : WithinBounds(r) /\ Receive(c, r)
          \/ Authenticate(c)
          \/ create_task(c)
          \/ get_tasks(c)
          \/ delete_task(c)
          \/ create_user(c)
          \/ login(c)
    \/ Tick(StatelessInstants)

SpecStateless == Init /\ [][NextStateless]_vars

--------------------------------------------------------------------------
(* SpecConc: two clients create and delete concurrently                   *)

ConcRequests ==
    {CreateTaskReq(BearerAlice, StatelessInput)}
    \cup {TaskIdReq("delete_task", BearerAlice, id) : id \in TaskIds}
    \cup {UserReq(u, "a@x.io", "pw") : u \in {"alice", "bob"}}

NextConc ==
    \E c \in Clients :
        \/ \E r \in ConcRequests : WithinBounds(r) /\ Receive(c, r)
        \/ Authenticate(c)
        \/ create_task(c)
        \/ delete_task(c)
        \/ create_user(c)

SpecConc == Init /\ [][NextConc]_vars

--------------------------------------------------------------------------
(* SpecSnapshot: one client lists the tasks while the other creates,      *)
(* updates and deletes them                                               *)

Reader == "c1"
Writer == "c2"

SnapshotRequests(c) ==
    IF c = Reader
    THEN {BearerReq("get_tasks", BearerAlice)}
    ELSE {CreateTaskReq(BearerAlice, t) : t \in TaskInputs}
         \cup {UpdateTaskReq(BearerAlice, id, t) :
                  id \in 1..MaxIds, t \in TaskInputs}
         \cup {TaskIdReq("delete_task", BearerAlice, id) : id \in 1..MaxIds}

NextSnapshot ==
    \E c \in Clients :
        \/ \E r \in SnapshotRequests(c) : WithinBounds(r) /\ Receive(c, r)
        \/ Authenticate(c)
        \/ create_task(c)
        \/ get_tasks(c)
        \/ update_task(c)
        \/ delete_task(c)

SpecSnapshot == Init /\ [][NextSnapshot]_vars

--------------------------------------------------------------------------
(* SpecRace: each of two clients sends one CreateUser request to the      *)
(* empty store, in any interleaving                                       *)

RaceRequests == {UserReq(u, e, "pw") : u \in {"alice", "bob"}, e \in Emails}

\* the client has not sent anything yet
Fresh(c) == pc[c] = "idle" /\ req[c] = NoReq

NextRace ==
    \/ \E c \in Clients :
          \/ \E r \in RaceRequests : Fresh(c) /\ Receive(c, r)
          \/ create_user(c)
    \/ Tick(StoreInstants)

SpecRace == Init /\ [][NextRace]_vars

--------------------------------------------------------------------------
(* Properties                                                             *)

\* the step in which the handler of route op answers client c
Answers(c, op) ==
    /\ req[c].op = op
    /\ pc[c] # "idle"
    /\ pc'[c] = "idle"
    /\ op \in GatedOps => pc[c] = "authed"

HasTask(db, id) == \E i \in 1..Len(db) : db[i].id = id

\* the tasks of db whose id is not id, in their order
RECURSIVE Others(_, _)
Others(db, id) ==
    IF db = <<>> THEN <<>>
    ELSE IF Head(db).id = id THEN Others(Tail(db), id)
    ELSE <<Head(db)>> \o Others(Tail(db), id)

\* verify_token lets the credentials through
Accepts(cred) == cred.kind # "absent" /\ verify_token(cred).status = HTTP_200

\* C5 as stated: a bearer-gated route runs only for credentials verify_token
\* accepts; any other request is answered 401 and changes nothing
GateStep(c, refusals(_)) ==
    /\ (pc'[c] = "authed" /\ pc[c] # "authed") =>
           (pc[c] = "received" /\ Accepts(req[c].cred))
    /\ (req[c].op \in GatedOps /\ pc[c] # "idle" /\ pc'[c] = "idle") =>
           \/ pc[c] = "authed"
           \/ /\ ~Accepts(req[c].cred)
              /\ resp'[c].status \in refusals(req[c].cred)
              /\ UNCHANGED <<store, assigned_ids>>
    /\ (req[c].op \in GatedOps /\ pc[c] = "received"
           /\ ~Accepts(req[c].cred) /\ pc'[c] # pc[c]) =>
           /\ pc'[c] = "idle"
           /\ resp'[c].status \in refusals(req[c].cred)
           /\ UNCHANGED <<store, assigned_ids>>

OnlyUnauthorized(cred) == {HTTP_401}
UnauthorizedOrForbidden(cred) ==
    IF cred.kind = "absent" THEN {HTTP_401, HTTP_403} ELSE {HTTP_401}

\* C5 (as stated in the claim): no task operation and no /auth/me lookup is
\* performed unless the request carried a bearer token verify_token accepts;
\* a request with no bearer header or a rejected token gets 401 and leaves
\* tasks_db, users_db and both counters unchanged
C5_AsStated ==
    [][ /\ \A c \in Clients : GateStep(c, OnlyUnauthorized)
        /\ (tasks_db' # tasks_db \/ task_id_counter' # task_id_counter) =>
               \E c \in Clients : pc[c] = "authed" /\ pc'[c] = "idle" ]_vars

\* C5 (amended): as C5, but a request with no bearer header is turned away
\* by HTTPBearer with 403 or 401 (depending on the FastAPI release); a
\* token verify_token rejects gets 401; in all these cases the store is
\* unchanged and the handler does not run
C5_Gate ==
    [][ /\ \A c \in Clients : GateStep(c, UnauthorizedOrForbidden)
        /\ (tasks_db' # tasks_db \/ task_id_counter' # task_id_counter) =>
               \E c \in Clients : pc[c] = "authed" /\ pc'[c] = "idle" ]_vars

\* a delete request with a badly signed token was answered 401 while the
\* task it names is still stored
C5_Witness ==
    \E c \in Clients :
        /\ pc[c] = "idle"
        /\ req[c].op = "delete_task"
        /\ req[c].cred = BadSignature
        /\ resp[c].status = HTTP_401
        /\ HasTask(tasks_db, req[c].task_id)

\* C9: UpdateTask(id, fields) on an existing task sets its title,
\* description and priority to the supplied values, leaves its id, completed
\* and created_at, every other task, the order of tasks_db and
\* task_id_counter as they were; with no task of that id it answers 404 and
\* changes nothing
C9_UpdateFrame ==
    [][ \A c \in Clients : Answers(c, "update_task") =>
          /\ UNCHANGED <<users_db, task_id_counter, user_id_counter>>
          /\ IF HasTask(tasks_db, req[c].task_id)
             THEN /\ resp'[c].status = HTTP_200
                  /\ Len(tasks_db') = Len(tasks_db)
                  /\ \A i \in 1..Len(tasks_db) :
                        IF tasks_db[i].id = req[c].task_id
                        THEN /\ tasks_db'[i].title = req[c].task.title
                             /\ tasks_db'[i].description =
                                    req[c].task.description
                             /\ tasks_db'[i].priority = req[c].task.priority
                             /\ tasks_db'[i].id = tasks_db[i].id
                             /\ tasks_db'[i].completed = tasks_db[i].completed
                             /\ tasks_db'[i].created_at =
                                    tasks_db[i].created_at
                             /\ resp'[c].body = tasks_db'[i]
                        ELSE tasks_db'[i] = tasks_db[i]
             ELSE /\ resp'[c].status = HTTP_404
                  /\ UNCHANGED tasks_db ]_vars

\* an update of a completed task, created earlier and not the only one
\* stored, was answered 200 and the task carries the new fields
C9_Witness ==
    \E c \in Clients : \E i \in 1..Len(tasks_db) :
        /\ pc[c] = "idle"
        /\ req[c].op = "update_task"
        /\ resp[c].status = HTTP_200
        /\ Len(tasks_db) = 2
        /\ tasks_db[i].id = req[c].task_id
        /\ tasks_db[i].completed
        /\ tasks_db[i].created_at < now
        /\ tasks_db[i].title = "B"
        /\ resp[c].body = tasks_db[i]

\* C10: DeleteTask(id) always succeeds, whether or not a task has that id;
\* afterwards no task with that id is stored, the other tasks are kept
\* unchanged in their order, task_id_counter is unchanged, and a second
\* DeleteTask(id) leaves the store as the first left it
C10_DeleteIdempotent ==
    [][ \A c \in Clients : Answers(c, "delete_task") =>
          /\ resp'[c].status = HTTP_200
          /\ ~HasTask(tasks_db', req[c].task_id)
          /\ tasks_db' = Others(tasks_db, req[c].task_id)
          /\ UNCHANGED <<users_db, task_id_counter, user_id_counter>>
          /\ ~HasTask(tasks_db, req[c].task_id) => UNCHANGED tasks_db
          /\ tasks_without(tasks_db', req[c].task_id) = tasks_db' ]_vars

\* a delete of the first of two stored tasks was answered 200 and the
\* second task is what is left
C10_Witness ==
    \E c \in Clients :
        /\ pc[c] = "idle"
        /\ req[c].op = "delete_task"
        /\ req[c].task_id = 1
        /\ resp[c].status = HTTP_200
        /\ task_id_counter = 3
        /\ Len(tasks_db) = 1
        /\ tasks_db[1].id = 2

--------------------------------------------------------------------------
(* Token properties (SpecToken)                                           *)

\* the step in which Depends(verify_token) runs for client c
Verifies(c) ==
    /\ pc[c] = "received"
    /\ pc'[c] # "received"
    /\ req[c].op \in GatedOps
    /\ req[c].cred.kind # "absent"

SignatureVerifies(cred) == cred.kind = "jwt" /\ cred.key = SECRET_KEY
\* the expiry has not passed: no exp claim, or the clock reads less than it
NotExpired(cred) == "exp" \in DOMAIN cred.payload => now < cred.payload["exp"]
Subject(cred) == dict_get(cred.payload, "sub")

\* verify_token returns sub / answers 401, decided by valid
VerifyOutcome(c, valid) ==
    IF valid
    THEN /\ pc'[c] = "authed"
         /\ principal'[c] = Subject(req[c].cred)
    ELSE /\ pc'[c] = "idle"
         /\ resp'[c].status = HTTP_401

\* C3 (as stated in the claim): verify_token accepts a token iff its
\* signature verifies, its expiry has not passed and its subject claim is
\* non-empty; a token with an absent or an empty subject is rejected
C3_AsStated ==
    [][ \A c \in Clients : Verifies(c) =>
          VerifyOutcome(c, /\ SignatureVerifies(req[c].cred)
                           /\ NotExpired(req[c].cred)
                           /\ Subject(req[c].cred) \notin {None, ""}) ]_vars

\* C3 (amended): verify_token accepts a token, returning its subject, iff
\* its signature verifies under the process secret, its expiry has not
\* passed and it carries a subject claim that is not null; the empty string
\* is a subject it accepts; every other token is rejected with 401
C3_ValidIff ==
    [][ \A c \in Clients : Verifies(c) =>
          VerifyOutcome(c, /\ SignatureVerifies(req[c].cred)
                           /\ NotExpired(req[c].cred)
                           /\ Subject(req[c].cred) # None) ]_vars

\* the token login issued to the user whose username is empty passed
\* verify_token and /auth/me answered with that user
C3_Witness ==
    \E c \in Clients :
        /\ pc[c] = "idle"
        /\ req[c].op = "get_current_user"
        /\ req[c].cred = token[c]
        /\ token[c].kind = "jwt"
        /\ Subject(token[c]) = ""
        /\ principal[c] = ""
        /\ resp[c].status = HTTP_200
        /\ resp[c].body.username = ""

\* a token as login issues it: process key, a subject, an expiry
Issued(cred) ==
    /\ SignatureVerifies(cred)
    /\ DOMAIN cred.payload = {"sub", "exp"}
    /\ Subject(cred) # None

\* C4: a token issued at t0 carries expiry t0 + 30 minutes; Verify on it
\* succeeds at every time up to t0 + 29 minutes and fails at t0 + 31 minutes
\* and later; once expired it never becomes valid again
C4_Expiry ==
    [][ \A c \in Clients :
          /\ (Answers(c, "login") /\ resp'[c].status = HTTP_200) =>
                /\ resp'[c].body.payload["exp"] =
                       now + ACCESS_TOKEN_EXPIRE_MINUTES
                /\ token'[c] = resp'[c].body
          /\ (Verifies(c) /\ Issued(req[c].cred)) =>
                LET t0 == req[c].cred.payload["exp"]
                              - ACCESS_TOKEN_EXPIRE_MINUTES
                IN  /\ now <= t0 + (ACCESS_TOKEN_EXPIRE_MINUTES - 1) =>
                           pc'[c] = "authed"
                    /\ now >= t0 + (ACCESS_TOKEN_EXPIRE_MINUTES + 1) =>
                           (pc'[c] = "idle" /\ resp'[c].status = HTTP_401)
          /\ (token[c].kind = "jwt" /\ token'[c] = token[c]
                 /\ ~Accepts(token[c])) => ~Accepts(token[c])' ]_vars

\* the token the client got from login at minute 1 is answered 401 at
\* minute 32, 31 minutes later
C4_Witness ==
    \E c \in Clients :
        /\ pc[c] = "idle"
        /\ req[c].op = "get_tasks"
        /\ req[c].cred = token[c]
        /\ token[c].kind = "jwt"
        /\ token[c].payload["exp"] = 1 + ACCESS_TOKEN_EXPIRE_MINUTES
        /\ now = token[c].payload["exp"] + 1
        /\ resp[c].status = HTTP_401

\* C7: Login(username, password) returns a token iff a user with that
\* username is in users_db, whatever the password; for an unknown username
\* it answers 401 Invalid credentials; the store is unchanged either way
\* and the token has the username as subject
C7_Login ==
    [][ \A c \in Clients : Answers(c, "login") =>
          /\ UNCHANGED <<store, assigned_ids>>
          /\ IF \E i \in 1..Len(users_db) :
                   users_db[i].username = req[c].username
             THEN /\ resp'[c].status = HTTP_200
                  /\ SignatureVerifies(resp'[c].body)
                  /\ Subject(resp'[c].body) = req[c].username
             ELSE /\ resp'[c].status = HTTP_401
                  /\ resp'[c].body = "Invalid credentials" ]_vars

\* alice, who signed up with password "pw", got a token for the password
\* "anything" while another user is stored too
C7_Witness ==
    \E c \in Clients :
        /\ pc[c] = "idle"
        /\ req[c].op = "login"
        /\ req[c].username = "alice"
        /\ req[c].password = "anything"
        /\ resp[c].status = HTTP_200
        /\ Subject(resp[c].body) = "alice"
        /\ Len(users_db) = 2

\* C8: Verify(Issue(u)) returns u for every non-empty subject u when the
\* token is verified right after it was issued
C8_RoundTrip ==
    /\ [](\A u \in Usernames \ {""} :
             verify_token(create_access_token("sub" :> u))
                 = [status |-> HTTP_200, username |-> u])
    /\ [][ \A c \in Clients :
             ( /\ Verifies(c)
               /\ req[c].cred = token[c]
               /\ now < token[c].payload["exp"] ) =>
             /\ pc'[c] = "authed"
             /\ principal'[c] = Subject(token[c]) ]_vars

\* the token login issued for alice in this very minute passed verify_token,
\* which returned alice
C8_Witness ==
    \E c \in Clients :
        /\ pc[c] = "authed"
        /\ req[c].cred = token[c]
        /\ token[c].payload["exp"] = now + ACCESS_TOKEN_EXPIRE_MINUTES
        /\ now > 0
        /\ principal[c] = "alice"

--------------------------------------------------------------------------
(* Statelessness of the token check (SpecStateless)                       *)

\* the tokens whose verdict is followed: forged ones, and those held
FollowedTokens ==
    ForgedTokens \cup {BobToken, BearerAlice}
    \cup {token[c] : c \in {d \in Clients : token[d].kind = "jwt"}}

\* C6: the verdict of verify_token on a token depends on the token and the
\* clock only, not on users_db or tasks_db: no step at a fixed clock changes
\* it, an accepted token stays accepted until its expiry across any store
\* operations, and GET /api/v1/tasks with a correctly signed unexpired token
\* is answered 200 with the current task list whether or not a user with its
\* subject exists
C6_Stateless ==
    /\ [](\A cred \in FollowedTokens :
             verify_token(cred).status = HTTP_200
                 <=> /\ SignatureVerifies(cred)
                     /\ NotExpired(cred)
                     /\ Subject(cred) # None)
    /\ [][ \A cred \in FollowedTokens :
             /\ now' = now => verify_token(cred)' = verify_token(cred)
             /\ (Accepts(cred) /\ NotExpired(cred)') => Accepts(cred)' ]_vars
    /\ [][ \A c \in Clients :
             /\ ( /\ Verifies(c)
                  /\ req[c].op = "get_tasks"
                  /\ SignatureVerifies(req[c].cred)
                  /\ NotExpired(req[c].cred)
                  /\ Subject(req[c].cred) # None ) => pc'[c] = "authed"
             /\ Answers(c, "get_tasks") =>
                   /\ resp'[c].status = HTTP_200
                   /\ resp'[c].body = tasks_db ]_vars

\* the token for bob was answered 200 with the stored tasks one minute
\* before its expiry, while users are stored and none of them is bob
C6_Witness ==
    \E c \in Clients :
        /\ pc[c] = "idle"
        /\ req[c].op = "get_tasks"
        /\ req[c].cred = BobToken
        /\ resp[c].status = HTTP_200
        /\ now = ACCESS_TOKEN_EXPIRE_MINUTES - 1
        /\ tasks_db # <<>>
        /\ resp[c].body = tasks_db
        /\ users_db # <<>>
        /\ \A i \in 1..Len(users_db) : users_db[i].username # "bob"

--------------------------------------------------------------------------
(* Concurrent creation (SpecConc, SpecRace)                               *)

StrictlyIncreasingIds(db) ==
    \A i, j \in 1..Len(db) : i < j => db[i].id < db[j].id

\* the id the create request of c was answered with is new and larger than
\* all ids handed out before in the collection, the first one being 1
FreshId(c, handed) ==
    /\ resp'[c].body.id \notin handed
    /\ \A id \in handed : resp'[c].body.id > id
    /\ handed = {} => resp'[c].body.id = 1

\* C1: in each collection the ids handed out are pairwise distinct and
\* strictly increasing in order of creation, starting at 1: a new entity
\* gets an id greater than every id assigned before, deleted tasks'
\* included, under any interleaving of create and delete requests
C1_IdsIncrease ==
    /\ [](/\ StrictlyIncreasingIds(tasks_db)
          /\ StrictlyIncreasingIds(users_db)
          /\ \A i \in 1..Len(tasks_db) : tasks_db[i].id \in assigned_ids.tasks
          /\ \A i \in 1..Len(users_db) : users_db[i].id \in assigned_ids.users)
    /\ [][ \A c \in Clients :
             /\ Answers(c, "create_task") =>
                   /\ resp'[c].status = HTTP_200
                   /\ FreshId(c, assigned_ids.tasks)
                   /\ tasks_db' = Append(tasks_db, resp'[c].body)
                   /\ assigned_ids'.tasks =
                          assigned_ids.tasks \cup {resp'[c].body.id}
             /\ (Answers(c, "create_user") /\ resp'[c].status = HTTP_200) =>
                   /\ FreshId(c, assigned_ids.users)
                   /\ users_db' = Append(users_db, resp'[c].body)
                   /\ assigned_ids'.users =
                          assigned_ids.users \cup {resp'[c].body.id} ]_vars

\* one client was answered the task with id 2, the other the deletion of
\* task 1, and task 2 alone is stored
C1_Witness ==
    \E c, d \in Clients :
        /\ c # d
        /\ pc[c] = "idle" /\ pc[d] = "idle"
        /\ req[c].op = "create_task"
        /\ resp[c].status = HTTP_200
        /\ resp[c].body.id = 2
        /\ req[d].op = "delete_task"
        /\ req[d].task_id = 1
        /\ resp[d].status = HTTP_200
        /\ assigned_ids.tasks = {1, 2}
        /\ Len(tasks_db) = 1
        /\ tasks_db[1].id = 2

\* the request of c has been answered
Answered(c) == pc[c] = "idle" /\ resp[c].status # 0

\* C2: of two concurrent CreateUser requests with the same username, no
\* such user existing before, exactly one succeeds and the other is
\* answered 400, under every interleaving; users_db never holds two users
\* with the same username
C2_UsernameRace ==
    /\ \A i, j \in 1..Len(users_db) :
          i # j => users_db[i].username # users_db[j].username
    /\ \A c, d \in Clients :
          ( /\ c # d
            /\ Answered(c) /\ Answered(d)
            /\ req[c].op = "create_user" /\ req[d].op = "create_user"
            /\ req[c].username = req[d].username ) =>
          /\ {resp[c].status, resp[d].status} = {HTTP_200, HTTP_400}
          /\ Cardinality({i \in 1..Len(users_db) :
                             users_db[i].username = req[c].username}) = 1

\* both clients asked for alice with different emails; one was answered
\* 200, the other 400, and the stored alice is the first one's
C2_Witness ==
    \E c, d \in Clients :
        /\ c # d
        /\ Answered(c) /\ Answered(d)
        /\ req[c].username = "alice" /\ req[d].username = "alice"
        /\ req[c].email # req[d].email
        /\ resp[c].status = HTTP_200
        /\ resp[d].status = HTTP_400
        /\ Len(users_db) = 1
        /\ users_db[1].email = req[c].email

--------------------------------------------------------------------------
(* User creation (SpecRace)                                               *)

HasUser(db, username) == \E i \in 1..Len(db) : db[i].username = username

\* C11: CreateUser fails with 400 iff a user with the same username is in
\* users_db, and then leaves users_db and user_id_counter unchanged (no id
\* is consumed); otherwise it appends exactly one user with the next id and
\* the given username and email and advances user_id_counter by one
C11_CreateUser ==
    [][ \A c \in Clients : Answers(c, "create_user") =>
          /\ UNCHANGED <<tasks_db, task_id_counter>>
          /\ IF HasUser(users_db, req[c].username)
             THEN /\ resp'[c].status = HTTP_400
                  /\ UNCHANGED <<users_db, user_id_counter>>
             ELSE /\ resp'[c].status = HTTP_200
                  /\ Len(users_db') = Len(users_db) + 1
                  /\ SubSeq(users_db', 1, Len(users_db)) = users_db
                  /\ users_db'[Len(users_db')].id = user_id_counter
                  /\ users_db'[Len(users_db')].username = req[c].username
                  /\ users_db'[Len(users_db')].email = req[c].email
                  /\ resp'[c].body = users_db'[Len(users_db')]
                  /\ user_id_counter' = user_id_counter + 1 ]_vars

\* a second request for bob, with another email, was answered 400 a minute
\* after bob was created; bob keeps id 1 and the next id is still 2
C11_Witness ==
    \E c \in Clients :
        /\ Answered(c)
        /\ req[c].op = "create_user"
        /\ req[c].username = "bob"
        /\ resp[c].status = HTTP_400
        /\ Len(users_db) = 1
        /\ users_db[1].username = "bob"
        /\ users_db[1].email # req[c].email
        /\ users_db[1].id = 1
        /\ users_db[1].created_at = 0
        /\ now = 1
        /\ user_id_counter = 2

--------------------------------------------------------------------------
(* Authentication failures (SpecToken)                                    *)

\* the credentials fail authentication at the present minute: no bearer
\* header, no JWT, a bad signature, an expired token, a token without subject
FailsAuthentication(cred) ==
    \/ cred.kind # "jwt"
    \/ ~SignatureVerifies(cred)
    \/ ~NotExpired(cred)
    \/ Subject(cred) = None

\* the step in which a bearer-gated request of c passes or fails its
\* dependencies
AuthStep(c) ==
    /\ pc[c] = "received"
    /\ pc'[c] # "received"
    /\ req[c].op \in GatedOps

\* every authentication failure is answered with a status of refusals, a
\* failed token always with the same 401 response, an unknown login with 401
UniformFailures(c, refusals(_)) ==
    /\ (AuthStep(c) /\ FailsAuthentication(req[c].cred)) =>
          /\ pc'[c] = "idle"
          /\ resp'[c].status \in refusals(req[c].cred)
          /\ req[c].cred.kind # "absent" =>
                resp'[c] = [status |-> HTTP_401, body |-> "Invalid token"]
    /\ (Answers(c, "login") /\ ~HasUser(users_db, req[c].username)) =>
          resp'[c].status = HTTP_401

\* C12 (as stated in the claim): every authentication failure is answered
\* with 401: a missing bearer credential, a malformed token, a bad
\* signature, an expired token, a token without subject and a login for an
\* unknown username; a bad signature and an expired token get the same
\* response
C12_AsStated ==
    [][ \A c \in Clients : UniformFailures(c, OnlyUnauthorized) ]_vars

\* C12 (amended): a malformed token, a bad signature, an expired token and
\* a token without subject are answered with one and the same response, 401
\* Invalid token, and a login for an unknown username with 401; a missing
\* bearer credential is answered by HTTPBearer, with 403 or 401 depending on
\* the FastAPI release
C12_UniformFailures ==
    [][ \A c \in Clients : UniformFailures(c, UnauthorizedOrForbidden) ]_vars

\* a correctly signed token with a subject, presented after its expiry, got
\* the response 401 Invalid token that a bad signature gets
C12_Witness ==
    \E c \in Clients :
        /\ pc[c] = "idle"
        /\ req[c].op = "get_current_user"
        /\ req[c].cred.kind = "jwt"
        /\ SignatureVerifies(req[c].cred)
        /\ Subject(req[c].cred) = "bob"
        /\ ~NotExpired(req[c].cred)
        /\ resp[c] = [status |-> HTTP_401, body |-> "Invalid token"]

--------------------------------------------------------------------------
(* Listing (Spec)                                                         *)

\* the ids of db, in its order
IdsOf(db) == [i \in 1..Len(db) |-> db[i].id]

\* C13: ListTasks returns exactly the tasks created and not deleted, each
\* once, in insertion order, which is ascending id order: tasks_db holds
\* strictly increasing ids, a create appends the new task at the end, a
\* delete takes out the task of that id and keeps the others in their
\* order, an update or complete leaves every task at its place, nothing
\* else changes the ids stored, and get_tasks answers tasks_db as it stands
C13_ListOrder ==
    /\ [](StrictlyIncreasingIds(tasks_db))
    /\ [][ /\ \A c \in Clients :
                /\ Answers(c, "get_tasks") =>
                      /\ resp'[c] = [status |-> HTTP_200, body |-> tasks_db]
                      /\ UNCHANGED tasks_db
                /\ Answers(c, "create_task") =>
                      /\ resp'[c].body.id \notin assigned_ids.tasks
                      /\ IdsOf(tasks_db') =
                             Append(IdsOf(tasks_db), resp'[c].body.id)
                      /\ SubSeq(tasks_db', 1, Len(tasks_db)) = tasks_db
                /\ Answers(c, "delete_task") =>
                      /\ IdsOf(tasks_db') =
                             SelectSeq(IdsOf(tasks_db),
                                       LAMBDA id : id # req[c].task_id)
                      /\ \A i \in 1..Len(tasks_db') :
                            tasks_db'[i] = tasks_db[find_task(tasks_db'[i].id)]
                /\ (Answers(c, "update_task") \/ Answers(c, "complete_task"))
                      => IdsOf(tasks_db') = IdsOf(tasks_db)
           /\ IdsOf(tasks_db') # IdsOf(tasks_db) =>
                 \E c \in Clients : \/ Answers(c, "create_task")
                                    \/ Answers(c, "delete_task") ]_vars

\* a list request was answered with the second task alone, the first one
\* having been created and deleted
C13_Witness ==
    \E c \in Clients :
        /\ pc[c] = "idle"
        /\ req[c].op = "get_tasks"
        /\ resp[c].status = HTTP_200
        /\ assigned_ids.tasks = {1, 2}
        /\ Len(resp[c].body) = 1
        /\ resp[c].body[1].id = 2
        /\ resp[c].body = tasks_db

--------------------------------------------------------------------------
(* Completion (Spec)                                                      *)

\* C14: CompleteTask(id) on an existing task sets its completed flag to true
\* and leaves its id, title, description, priority and created_at, every
\* other task and task_id_counter as they were; on a task already completed
\* it changes nothing; with no task of that id it answers 404 and changes
\* nothing
C14_CompleteFrame ==
    [][ \A c \in Clients : Answers(c, "complete_task") =>
          /\ UNCHANGED <<users_db, task_id_counter, user_id_counter>>
          /\ IF HasTask(tasks_db, req[c].task_id)
             THEN /\ resp'[c].status = HTTP_200
                  /\ Len(tasks_db') = Len(tasks_db)
                  /\ \A i \in 1..Len(tasks_db) :
                        IF tasks_db[i].id = req[c].task_id
                        THEN /\ tasks_db'[i].completed = TRUE
                             /\ tasks_db'[i].id = tasks_db[i].id
                             /\ tasks_db'[i].title = tasks_db[i].title
                             /\ tasks_db'[i].description =
                                    tasks_db[i].description
                             /\ tasks_db'[i].priority = tasks_db[i].priority
                             /\ tasks_db'[i].created_at =
                                    tasks_db[i].created_at
                             /\ resp'[c].body = tasks_db'[i]
                             /\ tasks_db[i].completed => UNCHANGED tasks_db
                        ELSE tasks_db'[i] = tasks_db[i]
             ELSE /\ resp'[c].status = HTTP_404
                  /\ UNCHANGED tasks_db ]_vars

\* the completion of the second of two tasks, created earlier, was answered
\* 200 with the completed task, and the first task is still open
C14_Witness ==
    \E c \in Clients :
        /\ pc[c] = "idle"
        /\ req[c].op = "complete_task"
        /\ req[c].task_id = 2
        /\ resp[c].status = HTTP_200
        /\ Len(tasks_db) = 2
        /\ tasks_db[2].id = 2
        /\ tasks_db[2].completed
        /\ tasks_db[2].created_at < now
        /\ resp[c].body = tasks_db[2]
        /\ ~tasks_db[1].completed

--------------------------------------------------------------------------
(* Deleted tasks (Spec)                                                   *)

\* the id was handed out to a task that is no longer stored
Gone(id) == id \in assigned_ids.tasks /\ ~HasTask(tasks_db, id)

\* C15: once DeleteTask(id) has removed a task, no task with that id is
\* stored in any later state, and GetTask(id), UpdateTask(id, ..) and
\* CompleteTask(id) answer 404 without changing the store; a task created
\* afterwards gets another id
C15_DeletedStaysGone ==
    [][ \A id \in TaskIds :
          /\ \A c \in Clients :
                (Answers(c, "delete_task") /\ req[c].task_id = id
                    /\ HasTask(tasks_db, id)) => Gone(id)'
          /\ Gone(id) =>
                /\ Gone(id)'
                /\ \A c \in Clients :
                      /\ ((\/ Answers(c, "get_task")
                           \/ Answers(c, "update_task")
                           \/ Answers(c, "complete_task"))
                             /\ req[c].task_id = id) =>
                            /\ resp'[c].status = HTTP_404
                            /\ UNCHANGED tasks_db
                      /\ Answers(c, "create_task") =>
                            resp'[c].body.id # id ]_vars

\* GetTask(1) was answered 404: task 1 was created and deleted, task 2,
\* created after it, is stored
C15_Witness ==
    \E c \in Clients :
        /\ pc[c] = "idle"
        /\ req[c].op = "get_task"
        /\ req[c].task_id = 1
        /\ resp[c].status = HTTP_404
        /\ Gone(1)
        /\ HasTask(tasks_db, 2)

--------------------------------------------------------------------------
(* Snapshot semantics of the list (SpecSnapshot)                          *)

\* no handler is between two of its assignments
BetweenOperations == \A c \in Clients : pc[c] \in {"idle", "received", "authed"}

\* title, description and priority of the task come from one request body
Whole(task) ==
    \E t \in TaskInputs :
        /\ task.title = t.title
        /\ task.description = t.description
        /\ task.priority = t.priority

\* C16: the list a caller of ListTasks receives is tasks_db as it stands at
\* the one point where get_tasks answers, a point between whole store
\* operations also of the concurrent requests: no task in it has an update
\* applied in part, and a create or delete answered later does not change
\* the list received
C16_Snapshot ==
    [][ \A c \in Clients :
          /\ Answers(c, "get_tasks") =>
                /\ BetweenOperations
                /\ resp'[c] = [status |-> HTTP_200, body |-> tasks_db]
                /\ UNCHANGED tasks_db
                /\ \A i \in 1..Len(resp'[c].body) : Whole(resp'[c].body[i])
          /\ (pc[c] = "idle" /\ pc'[c] = "idle") => resp'[c] = resp[c] ]_vars

\* the reader holds the list with task 1 as created, while the writer's
\* update of task 1, received before the list was answered, has since been
\* applied and a second task created
C16_Witness ==
    /\ pc[Reader] = "idle"
    /\ req[Reader].op = "get_tasks"
    /\ resp[Reader].status = HTTP_200
    /\ Len(resp[Reader].body) = 1
    /\ resp[Reader].body[1].title = "A"
    /\ Len(tasks_db) = 2
    /\ tasks_db[1].id = 1
    /\ tasks_db[1].title = "B"
    /\ tasks_db[1].priority = "high"

--------------------------------------------------------------------------
(* Users are kept (SpecToken)                                             *)

\* the credentials are a token login has issued to some client
LoginIssued(cred) == \E d \in Clients : token[d] # NoCred /\ cred = token[d]

\* C17: users_db is append-only, its users are never removed or modified;
\* so the subject of every token login has issued stays a stored user, and
\* /auth/me called with such a token answers 200 with the user of that
\* username, never 404; it answers 404 only to a validly signed token whose
\* subject is no stored user, which login did not issue
C17_UsersKept ==
    /\ [](\A d \in Clients :
             token[d] # NoCred => HasUser(users_db, Subject(token[d])))
    /\ [][ /\ Len(users_db') >= Len(users_db)
           /\ SubSeq(users_db', 1, Len(users_db)) = users_db
           /\ \A c \in Clients : Answers(c, "get_current_user") =>
                 /\ resp'[c].status \in {HTTP_200, HTTP_404}
                 /\ LoginIssued(req[c].cred) =>
                       /\ resp'[c].status = HTTP_200
                       /\ resp'[c].body.username = Subject(req[c].cred)
                       /\ \E i \in 1..Len(users_db) :
                             users_db[i] = resp'[c].body
                 /\ resp'[c].status = HTTP_404 =>
                       /\ SignatureVerifies(req[c].cred)
                       /\ ~HasUser(users_db, Subject(req[c].cred))
                       /\ ~LoginIssued(req[c].cred) ]_vars

\* /auth/me answered 404 to a token for bob signed with the process key,
\* after two users had signed up and login had issued a token to the client
C17_Witness ==
    \E c \in Clients :
        /\ pc[c] = "idle"
        /\ req[c].op = "get_current_user"
        /\ resp[c].status = HTTP_404
        /\ SignatureVerifies(req[c].cred)
        /\ Subject(req[c].cred) = "bob"
        /\ token[c] # NoCred
        /\ req[c].cred # token[c]
        /\ Len(users_db) = 2

--------------------------------------------------------------------------
(* The completed flag (Spec)                                              *)

\* len([t for t in db if t.completed])
CompletedCount(db) == Cardinality({i \in 1..Len(db) : db[i].completed})

\* C18: a task is created with completed = false; a stored task that is
\* completed stays completed for as long as it is stored, through updates
\* too; so the number of completed tasks decreases only in a step of
\* delete_task, and analytics reports that number as completed_tasks, never
\* larger than total_tasks
C18_CompletedMonotone ==
    [][ /\ \A c \in Clients :
             /\ Answers(c, "create_task") =>
                   /\ resp'[c].body.completed = FALSE
                   /\ tasks_db'[Len(tasks_db')].completed = FALSE
             /\ Answers(c, "get_analytics") =>
                   /\ resp'[c].body.completed_tasks = CompletedCount(tasks_db)
                   /\ resp'[c].body.total_tasks = Len(tasks_db)
                   /\ resp'[c].body.completed_tasks
                         <= resp'[c].body.total_tasks
        /\ \A i \in 1..Len(tasks_db) : \A j \in 1..Len(tasks_db') :
              (tasks_db'[j].id = tasks_db[i].id /\ tasks_db[i].completed)
                 => tasks_db'[j].completed
        /\ CompletedCount(tasks_db') < CompletedCount(tasks_db) =>
              \E c \in Clients : Answers(c, "delete_task") ]_vars

\* analytics reported one completed task of two: the completed one carries
\* the title an update gave it and was created earlier
C18_Witness ==
    \E c \in Clients : \E i \in 1..Len(tasks_db) :
        /\ pc[c] = "idle"
        /\ req[c].op = "get_analytics"
        /\ resp[c].status = HTTP_200
        /\ resp[c].body.completed_tasks = 1
        /\ resp[c].body.total_tasks = 2
        /\ Len(tasks_db) = 2
        /\ tasks_db[i].completed
        /\ tasks_db[i].title = "B"
        /\ tasks_db[i].created_at < now

====
